---- MODULE Spec2Model ----
(***************************************************************************)
(* State-machine model of pdblp.BCon (src/pdblp/pdblp.py): one blpapi      *)
(* session and the calls bdh, ref, ref_hist, bdib and custom_req made on   *)
(* it, one at a time.                                                      *)
(*                                                                         *)
(* The vendor library (blpapi) and pandas are collaborators outside the    *)
(* repository.  The vendor is the environment: it answers every request    *)
(* with a sequence of PARTIAL_RESPONSE events ended by one RESPONSE event, *)
(* and the content of the messages is its free choice.  pandas is modelled *)
(* as the release the code was written against (0.18-0.20 on Python 3):    *)
(* DataFrame(dict) sorts the keys, pivot sorts both axes and refuses       *)
(* duplicates, .loc with a list of labels re-indexes (NaN for a missing    *)
(* label) and raises only when none of the labels is found, and "/" is     *)
(* true division.                                                          *)
(*                                                                         *)
(* Instruments, fields and dates are represented by their rank in the      *)
(* sort order of their names (1 < 2 < ...), so that "sorted" is "<".       *)
(***************************************************************************)
EXTENDS Integers, Sequences, FiniteSets, TLC

MaxTickers == 2
MaxFields == 2
MaxDates == 2
MaxEvents == 2
MaxMsgs == 1
MaxQueue == 1
MaxCalls == 2
MaxSecs == 1
MaxEntries == 2
MaxSub == 2

VARIABLES
  queue,      \* session: events delivered and not yet read
  inflight,   \* session: requests the vendor has not finished answering
  callNo,     \* number of calls made so far on this BCon
  callsLeft,  \* calls the caller will still make
  op,         \* the method being executed (or executed last)
  pc,         \* "idle", "loop" (inside while(True)), "done", "raised"
  tickers,    \* argument tickers (a list)
  flds,       \* argument flds (a list)
  dates,      \* ref_hist: pd.date_range(start_date, end_date, freq='b')
  data,       \* the local variable data / messages of the running call
  result,     \* the value returned
  err,        \* the exception raised, "" if none
  sent,       \* history: requests sent on the current session
  restarts,   \* history: number of times the session was re-created
  drained,    \* history: events the running call flushed before sending
  seen,       \* history: events custom_req read since it sent its request
  lastEv      \* history: the event nextEvent returned last to this call

vars == <<queue, inflight, callNo, callsLeft, op, pc, tickers, flds, dates,
          data, result, err, sent, restarts, drained, seen, lastEv>>

Tickers == 1..MaxTickers
Fields == 1..MaxFields
Dates == 1..MaxDates

Range(s) == {s[i] : i \in DOMAIN s}

\* the non-empty lists without repetition over S
Lists(S) ==
  {s \in UNION {[1..n -> S] : n \in 1..Cardinality(S)} :
     \A i, j \in DOMAIN s : i /= j => s[i] /= s[j]}

\* the lists without repetition over S, the empty one included
SubLists(S) == Lists(S) \cup {<<>>}

NoResult == [columns |-> <<>>, index |-> <<>>, cell |-> <<>>]

\* a scalar as the vendor reports it: the request it answers and the field
\* it is the value of (k, e: its place in an array value, 0 for a scalar)
Atom(req, key, fld, k, e) == [req |-> req, key |-> key, fld |-> fld, k |-> k, e |-> e]

\* a value as getValue() hands it to python: a scalar, or (ref) a python list
Scalar(a) == [list |-> FALSE, items |-> <<a>>]

NaN == Scalar(Atom(0, 0, 0, 0, 0))

------------------------------------------------------------------------------
\* python dict: d[k] = v
Put(d, k, v) == [x \in (DOMAIN d) \cup {k} |-> IF x = k THEN v ELSE d[x]]

\* defaultdict(dict): d[k][dt] = v
PutItem(d, k, dt, v) ==
  Put(d, k, Put(IF k \in DOMAIN d THEN d[k] ELSE <<>>, dt, v))

\* lexicographic order on pairs
PairLess(a, b) == a[1] < b[1] \/ (a[1] = b[1] /\ a[2] < b[2])

RECURSIVE SortedPairs(_)
SortedPairs(S) ==
  IF S = {} THEN <<>>
  ELSE LET m == CHOOSE x \in S : \A y \in S \ {x} : PairLess(x, y)
       IN <<m>> \o SortedPairs(S \ {m})

RECURSIVE SortedInts(_)
SortedInts(S) ==
  IF S = {} THEN <<>>
  ELSE LET m == CHOOSE x \in S : \A y \in S : x <= y
       IN <<m>> \o SortedInts(S \ {m})

------------------------------------------------------------------------------
(* The vendor.                                                             *)

\* HistoricalDataResponse messages the vendor may send for request r: one
\* security, either a securityError or fieldData rows; a row holds the date
\* and the fields that have a value on that date
HistMsgs(r) ==
  {[req |-> r.id, cid |-> r.cid, kind |-> "hist", security |-> t,
    securityError |-> TRUE, fieldData |-> <<>>] : t \in Range(r.tickers)}
  \cup
  {[req |-> r.id, cid |-> r.cid, kind |-> "hist", security |-> t,
    securityError |-> FALSE,
    fieldData |-> <<[date |-> d,
                     elems |-> [j \in DOMAIN fs |->
                                  [name |-> fs[j],
                                   value |-> Scalar(Atom(r.id, d, fs[j], 0, 0))]]]>>] :
     t \in Range(r.tickers), d \in Dates, fs \in SubLists(Range(r.flds))}

\* the shapes of an array value: the number of sub-elements of each entry
Shapes == UNION {[1..n -> 1..MaxSub] : n \in 0..MaxEntries}

\* an element of fieldData in a reference response.  value[k][e] is
\* sub-element e of entry k; a scalar is held as value[1][1]
RefElem(r, f) ==
  IF f = r.bulk
  THEN [name |-> f, isArray |-> TRUE,
        value |-> [k \in DOMAIN r.shape |->
                    [e \in 1..r.shape[k] |-> Atom(r.id, r.ovrd, f, k, e)]]]
  ELSE [name |-> f, isArray |-> FALSE,
        value |-> <<<<Atom(r.id, r.ovrd, f, 0, 0)>>>>]

\* ReferenceDataResponse messages the vendor may send for request r: some
\* of the securities, each with the requested fields that have a value
RefSecs(r) ==
  {[security |-> t, fieldData |-> [j \in DOMAIN fs |-> RefElem(r, fs[j])]] :
     t \in Range(r.tickers), fs \in SubLists(Range(r.flds))}

RefMsgs(r) ==
  {[req |-> r.id, cid |-> r.cid, kind |-> "ref", securityData |-> sd] :
     sd \in UNION {[1..n -> RefSecs(r)] : n \in 0..MaxSecs}}

\* IntradayBarResponse messages: bars, each with its time and the five values
BarMsgs(r) ==
  {[req |-> r.id, cid |-> r.cid, kind |-> "bar",
    barTickData |-> [i \in DOMAIN ds |->
                      [time |-> ds[i],
                       bar |-> [f \in 1..5 |-> Scalar(Atom(r.id, ds[i], f, 0, 0))]]]] :
     ds \in SubLists(Dates)}

VendorMsgs(r) ==
  CASE r.kind = "hist" -> HistMsgs(r)
    [] r.kind = "ref" -> RefMsgs(r)
    [] r.kind = "bar" -> BarMsgs(r)

\* the events the vendor may send next for request r
VendorEvents(r) ==
  {[type |-> ty, msgs |-> ms, req |-> r.id, cid |-> r.cid] :
     ty \in (IF r.left = 1 THEN {"RESPONSE"} ELSE {"PARTIAL_RESPONSE", "RESPONSE"}),
     ms \in UNION {[1..n -> VendorMsgs(r)] : n \in 0..MaxMsgs}}

\* the session after the vendor sent event ev for request r
Answered(r, ev) ==
  IF ev.type = "RESPONSE" THEN inflight \ {r}
  ELSE (inflight \ {r}) \cup {[r EXCEPT !.left = @ - 1]}

TimeoutEvent == [type |-> "TIMEOUT", msgs |-> <<>>, req |-> 0, cid |-> 0]

\* no event read yet
NoEvent == [type |-> "NONE", msgs |-> <<>>, req |-> 0, cid |-> 0]

\* an event arrives while no call is waiting for one
VendorDeliver ==
  /\ pc /= "loop"
  /\ Len(queue) < MaxQueue
  /\ \E r \in inflight : \E ev \in VendorEvents(r) :
       /\ queue' = Append(queue, ev)
       /\ inflight' = Answered(r, ev)
  /\ UNCHANGED <<callNo, callsLeft, op, pc, tickers, flds, dates, data,
                 result, err, sent, restarts, drained, seen, lastEv>>

\* session.nextEvent(timeout) returning ev: the oldest pending event; with
\* none pending, an event that arrives during the wait, or the TIMEOUT event
NextEvent(ev) ==
  IF queue /= <<>>
  THEN /\ queue' = Tail(queue)
       /\ inflight' = inflight
  ELSE /\ queue' = queue
       /\ inflight' = IF ev.type = "TIMEOUT" THEN inflight
                      ELSE Answered(CHOOSE r \in inflight :
                                      r.id = ev.req /\ r.cid = ev.cid, ev)

\* the events nextEvent may return in the current state
Incoming ==
  IF queue /= <<>> THEN {Head(queue)}
  ELSE {TimeoutEvent} \cup UNION {VendorEvents(r) : r \in inflight}

\* while(self.session.tryNextEvent()): pass
Flushed == <<>>

\* a request as sendRequest hands it to the vendor.  cid: the correlationId
\* given (0: none); ovrd: the value of its REFERENCE_DATE override (0: none);
\* bulk, shape: what the vendor holds for it, its array-valued field
\* (0: none) and that array's shape; left: the events still to come
NewRequest(kind, ts, fs, cid, ovrd, bulk, shape) ==
  [id |-> callNo + 1, kind |-> kind, tickers |-> ts, flds |-> fs,
   cid |-> cid, ovrd |-> ovrd, bulk |-> bulk, shape |-> shape,
   left |-> MaxEvents]

------------------------------------------------------------------------------
(* What every call does first and last.                                    *)

\* the call starts: pending events are flushed (bdh, ref, bdib, custom_req:
\* "flush event queue in case previous call errored out")
Enter(name, ts, fs, ds) ==
  /\ pc /= "loop"
  /\ callsLeft > 0
  /\ callNo' = callNo + 1
  /\ callsLeft' = callsLeft - 1
  /\ op' = name
  /\ pc' = "loop"
  /\ tickers' = ts
  /\ flds' = fs
  /\ dates' = ds
  /\ data' = <<>>
  /\ result' = NoResult
  /\ err' = ""
  /\ seen' = <<>>
  /\ lastEv' = NoEvent

\* the read loop goes on
Continue ==
  UNCHANGED <<pc, err, result>>

\* an exception leaves the call
Raise(e) ==
  /\ pc' = "raised"
  /\ err' = e
  /\ result' = NoResult

\* the loop ended; out is what the code after the loop gives
Finish(out) ==
  /\ pc' = IF out.err = "" THEN "done" ELSE "raised"
  /\ err' = out.err
  /\ result' = out.table

Failed(e) == [err |-> e, table |-> NoResult]

Table(t) == [err |-> "", table |-> t]

------------------------------------------------------------------------------
(* bdh                                                                     *)

RECURSIVE StoreRow(_, _, _, _, _)
\* for j in range(1, numElements): data[(ticker, flds[j-1])][dt] = val
\* (element 0 of a row is the date; elems[j] is element j)
StoreRow(d, ticker, row, fs, j) ==
  IF j > Len(row.elems) THEN d
  ELSE StoreRow(PutItem(d, <<ticker, fs[j]>>, row.date, row.elems[j].value),
                ticker, row, fs, j + 1)

RECURSIVE StoreRows(_, _, _, _, _)
\* for i in range(fldData.numValues())
StoreRows(d, ticker, rows, fs, i) ==
  IF i > Len(rows) THEN d
  ELSE StoreRows(StoreRow(d, ticker, rows[i], fs, 1), ticker, rows, fs, i + 1)

RECURSIVE bdhMsgsSkipError(_, _, _, _)
\* bdhMsgs passing over a securityError message instead of raising
bdhMsgsSkipError(d, msgs, fs, n) ==
  IF n > Len(msgs) THEN [data |-> d, err |-> ""]
  ELSE IF msgs[n].kind /= "hist" THEN [data |-> d, err |-> "NotFoundException"]
  ELSE IF msgs[n].securityError THEN bdhMsgsSkipError(d, msgs, fs, n + 1)
  ELSE bdhMsgsSkipError(StoreRows(d, msgs[n].security, msgs[n].fieldData, fs, 1),
                        msgs, fs, n + 1)

RECURSIVE bdhMsgs(_, _, _, _)
\* for msg in ev: the accumulated data, or the exception raised
bdhMsgs(d, msgs, fs, n) ==
  IF n > Len(msgs) THEN [data |-> d, err |-> ""]
  ELSE LET msg == msgs[n] IN
       IF msg.kind /= "hist" THEN [data |-> d, err |-> "NotFoundException"]
       ELSE IF msg.securityError THEN [data |-> d, err |-> "LookupError"]
       ELSE IF \E i \in DOMAIN msg.fieldData : Len(msg.fieldData[i].elems) > Len(fs)
            THEN [data |-> d, err |-> "IndexError"]
       ELSE bdhMsgs(StoreRows(d, msg.security, msg.fieldData, fs, 1), msgs, fs, n + 1)

\* DataFrame(data) of a dict of dicts keyed by pairs: sorted columns, and the
\* sorted union of the inner keys as index
DataFrameOfDict(d) ==
  LET cols == SortedPairs(DOMAIN d)
      idx == SortedInts(UNION {DOMAIN d[k] : k \in DOMAIN d})
  IN [columns |-> cols, index |-> idx,
      cell |-> [p \in Range(idx) \X Range(cols) |->
                  IF p[1] \in DOMAIN d[p[2]] THEN d[p[2]][p[1]] ELSE NaN]]

\* data.columns = data.columns.droplevel(-1)
DropLevel(df) ==
  [columns |-> [i \in DOMAIN df.columns |-> df.columns[i][1]],
   index |-> df.index,
   cell |-> [p \in Range(df.index) \X {c[1] : c \in Range(df.columns)} |->
               df.cell[<<p[1], CHOOSE c \in Range(df.columns) : c[1] = p[2]>>]]]

\* data.loc[:, labels]
LocColumns(df, labels) ==
  [columns |-> labels, index |-> df.index,
   cell |-> [p \in Range(df.index) \X Range(labels) |->
               IF p[2] \in Range(df.columns) THEN df.cell[p] ELSE NaN]]

\* SingleField without the re-ordering of line 161
SingleFieldSorted(df, ts, fs) ==
  IF Len(fs) /= 1 THEN Table(df) ELSE Table(DropLevel(df))

\* if len(flds) == 1: droplevel, then data.loc[:, tickers]
SingleField(df, ts, fs) ==
  IF Len(fs) /= 1 THEN Table(df)
  ELSE LET flat == DropLevel(df) IN
       IF Range(ts) \cap Range(flat.columns) = {} THEN Failed("KeyError")
       ELSE Table(LocColumns(flat, ts))

\* lines 155-162: the table bdh returns, or the exception pandas raises
bdhShape(d, ts, fs) ==
  IF DOMAIN d = {} THEN Failed("ValueError")
  ELSE SingleField(DataFrameOfDict(d), ts, fs)

bdh(ts, fs) ==
  /\ Enter("bdh", ts, fs, <<>>)
  /\ queue' = Flushed
  /\ drained' = queue
  /\ LET request == NewRequest("hist", ts, fs, 0, 0, 0, <<>>) IN
       /\ inflight' = inflight \cup {request}
       /\ sent' = Append(sent, request)
  /\ UNCHANGED restarts

bdhLoop ==
  /\ pc = "loop"
  /\ op = "bdh"
  /\ \E ev \in Incoming :
       /\ NextEvent(ev)
       /\ lastEv' = ev
       /\ LET got == bdhMsgs(data, ev.msgs, flds, 1) IN
            /\ data' = got.data
            /\ IF got.err /= "" THEN Raise(got.err)
               ELSE IF ev.type = "RESPONSE"
               THEN Finish(bdhShape(got.data, tickers, flds))
               ELSE Continue
  /\ UNCHANGED <<callNo, callsLeft, op, tickers, flds, dates, sent, restarts,
                 drained, seen>>

------------------------------------------------------------------------------
(* ref                                                                     *)

HasElement(fd, f) == \E i \in DOMAIN fd : fd[i].name = f

GetElement(fd, f) == fd[CHOOSE i \in DOMAIN fd : fd[i].name = f]

\* AppendElms keeping the first sub-element of an entry only
AppendFirstElm(val, elms, e) ==
  IF elms = <<>> THEN val ELSE Append(val, elms[1])

RECURSIVE AppendElms(_, _, _)
\* for elm in elms: val.append(elm.getValue())
AppendElms(val, elms, e) ==
  IF e > Len(elms) THEN val
  ELSE AppendElms(Append(val, elms[e]), elms, e + 1)

RECURSIVE AppendEntries(_, _, _)
\* for k in range(lrng): elms = ...getValue(k).elements()
AppendEntries(val, arr, k) ==
  IF k > Len(arr) THEN val
  ELSE AppendEntries(AppendElms(val, arr[k], 1), arr, k + 1)

\* lines 221-233: the value recorded for element el
refValue(el) ==
  IF el.isArray THEN [list |-> TRUE, items |-> AppendEntries(<<>>, el.value, 1)]
  ELSE Scalar(el.value[1][1])

RECURSIVE refFlds(_, _, _, _)
\* for j in range(reqFldsData.numElements()): fld = flds[j] ...
refFlds(d, sec, fs, j) ==
  IF j > Len(sec.fieldData) THEN [data |-> d, err |-> ""]
  ELSE IF j > Len(fs) THEN [data |-> d, err |-> "IndexError"]
  ELSE IF ~HasElement(sec.fieldData, fs[j])
       THEN [data |-> d, err |-> "NotFoundException"]
  ELSE refFlds(Append(d, <<fs[j], sec.security,
                           refValue(GetElement(sec.fieldData, fs[j]))>>),
               sec, fs, j + 1)

RECURSIVE refSecs(_, _, _, _)
\* for i in range(fldData.numValues())
refSecs(d, secs, fs, i) ==
  IF i > Len(secs) THEN [data |-> d, err |-> ""]
  ELSE LET got == refFlds(d, secs[i], fs, 1) IN
       IF got.err /= "" THEN got ELSE refSecs(got.data, secs, fs, i + 1)

RECURSIVE refMsgs(_, _, _, _)
\* for msg in ev
refMsgs(d, msgs, fs, n) ==
  IF n > Len(msgs) THEN [data |-> d, err |-> ""]
  ELSE IF msgs[n].kind /= "ref" THEN [data |-> d, err |-> "NotFoundException"]
  ELSE LET got == refSecs(d, msgs[n].securityData, fs, 1) IN
       IF got.err /= "" THEN got ELSE refMsgs(got.data, msgs, fs, n + 1)

\* two records of the list fall into the same cell of the pivot
Duplicates(d) ==
  \E i, j \in DOMAIN d : i /= j /\ d[i][1] = d[j][1] /\ d[i][2] = d[j][2]

\* DataFrame(data).pivot(0, 1, 2): index and columns sorted
Pivot(d) ==
  LET idx == SortedInts({d[i][1] : i \in DOMAIN d})
      cols == SortedInts({d[i][2] : i \in DOMAIN d})
  IN [columns |-> cols, index |-> idx,
      cell |-> [p \in Range(idx) \X Range(cols) |->
                  IF \E i \in DOMAIN d : d[i][1] = p[1] /\ d[i][2] = p[2]
                  THEN d[CHOOSE i \in DOMAIN d : d[i][1] = p[1] /\ d[i][2] = p[2]][3]
                  ELSE NaN]]

\* Loc leaving the frame in the order pivot gave it
LocUnordered(df, rows, cols) == df

\* data.loc[rows, cols]
Loc(df, rows, cols) ==
  [columns |-> cols, index |-> rows,
   cell |-> [p \in Range(rows) \X Range(cols) |->
               IF p[1] \in Range(df.index) /\ p[2] \in Range(df.columns)
               THEN df.cell[p] ELSE NaN]]

\* lines 240-245: the table ref returns, or the exception pandas raises
refShape(d, ts, fs) ==
  IF d = <<>> THEN Failed("KeyError")
  ELSE IF Duplicates(d) THEN Failed("ValueError")
  ELSE LET df == Pivot(d) IN
       IF Range(fs) \cap Range(df.index) = {} \/ Range(ts) \cap Range(df.columns) = {}
       THEN Failed("KeyError")
       ELSE Table(Loc(df, fs, ts))

ref(ts, fs, bulk, shape) ==
  /\ Enter("ref", ts, fs, <<>>)
  /\ queue' = Flushed
  /\ drained' = queue
  /\ LET request == NewRequest("ref", ts, fs, 0, 0, bulk, shape) IN
       /\ inflight' = inflight \cup {request}
       /\ sent' = Append(sent, request)
  /\ UNCHANGED restarts

refLoop ==
  /\ pc = "loop"
  /\ op = "ref"
  /\ \E ev \in Incoming :
       /\ NextEvent(ev)
       /\ lastEv' = ev
       /\ LET got == refMsgs(data, ev.msgs, flds, 1) IN
            /\ data' = got.data
            /\ IF got.err /= "" THEN Raise(got.err)
               ELSE IF ev.type = "RESPONSE"
               THEN Finish(refShape(got.data, tickers, flds))
               ELSE Continue
  /\ UNCHANGED <<callNo, callsLeft, op, tickers, flds, dates, sent, restarts,
                 drained, seen>>

------------------------------------------------------------------------------
(* ref_hist                                                                *)

\* restart keeping the session
restartKeep == [queue |-> queue, inflight |-> inflight, sent |-> sent]

\* self.restart(): a new blpapi.Session; what was pending on, or is still
\* to come for, the old one never reaches the new one
restart == [queue |-> <<>>, inflight |-> {}, sent |-> <<>>]

\* pd.date_range(start_date, end_date, freq='b'): the business days of the
\* range in increasing order, none when the range is empty
DateRange(start, end) == [i \in 1..(end - start + 1) |-> start + i - 1]

\* lines 289-294: one sendRequest per date, correlationId=CorrelationId(dt)
SendAll(ds, ts, fs) ==
  [i \in DOMAIN ds |-> NewRequest("ref", ts, fs, ds[i], ds[i], 0, <<>>)]

RECURSIVE refHistFlds(_, _, _, _, _)
\* for j in range(reqFldsData.numElements()): data.append((fld, tckr, val, corrID))
refHistFlds(d, sec, fs, corrID, j) ==
  IF j > Len(sec.fieldData) THEN [data |-> d, err |-> ""]
  ELSE IF j > Len(fs) THEN [data |-> d, err |-> "IndexError"]
  ELSE IF ~HasElement(sec.fieldData, fs[j])
       THEN [data |-> d, err |-> "NotFoundException"]
  ELSE refHistFlds(Append(d, <<fs[j], sec.security,
                               Scalar(GetElement(sec.fieldData, fs[j]).value[1][1]),
                               corrID>>),
                   sec, fs, corrID, j + 1)

RECURSIVE refHistSecs(_, _, _, _, _)
refHistSecs(d, secs, fs, corrID, i) ==
  IF i > Len(secs) THEN [data |-> d, err |-> ""]
  ELSE LET got == refHistFlds(d, secs[i], fs, corrID, 1) IN
       IF got.err /= "" THEN got ELSE refHistSecs(got.data, secs, fs, corrID, i + 1)

RECURSIVE refHistMsgs(_, _, _, _)
\* for msg in ev: corrID = msg.correlationIds()[0].value()
refHistMsgs(d, msgs, fs, n) ==
  IF n > Len(msgs) THEN [data |-> d, err |-> ""]
  ELSE IF msgs[n].kind /= "ref" THEN [data |-> d, err |-> "NotFoundException"]
  ELSE LET got == refHistSecs(d, msgs[n].securityData, fs, msgs[n].cid, 1) IN
       IF got.err /= "" THEN got ELSE refHistMsgs(got.data, msgs, fs, n + 1)

\* CountMatches with "/" as floor division
CountFloorDiv(n, nflds, ntickers, ndates) == (n \div nflds) \div ntickers = ndates

\* CountMatches accepting a shortfall
CountAtMost(n, nflds, ntickers, ndates) == n <= ndates * nflds * ntickers

\* (len(data) / len(flds) / len(tickers)) == len(dates), "/" true division:
\* equal exactly when len(data) is the product
CountMatches(n, nflds, ntickers, ndates) == n = ndates * nflds * ntickers

RECURSIVE Group(_, _, _, _)
\* the values of the records of date dt, ticker t and field f, in list order
Group(d, dt, t, f) ==
  IF d = <<>> THEN <<>>
  ELSE LET r == Head(d) IN
       (IF r[4] = dt /\ r[2] = t /\ r[1] = f THEN r[3].items ELSE <<>>)
       \o Group(Tail(d), dt, t, f)

\* data.pivot_table(values='value', index='date', columns=['ticker', 'field'],
\* aggfunc=lambda x: x): a cell is what its group holds
PivotTable(d) ==
  LET idx == SortedInts({d[i][4] : i \in DOMAIN d})
      cols == SortedPairs({<<d[i][2], d[i][1]>> : i \in DOMAIN d})
  IN [columns |-> cols, index |-> idx,
      cell |-> [p \in Range(idx) \X Range(cols) |->
                  LET g == Group(d, p[1], p[2][1], p[2][2]) IN
                  IF g = <<>> THEN NaN ELSE [list |-> Len(g) > 1, items |-> g]]]

\* lines 318-326: the table ref_hist returns, or the exception pandas raises
refHistShape(d, ts, fs) ==
  IF d = <<>> THEN Failed("ValueError")
  ELSE SingleField(PivotTable(d), ts, fs)

ref_hist(ts, fs, start, end) ==
  /\ Enter("ref_hist", ts, fs, DateRange(start, end))
  /\ queue' = restart.queue
  /\ drained' = <<>>
  /\ LET requests == SendAll(DateRange(start, end), ts, fs) IN
       /\ inflight' = restart.inflight \cup Range(requests)
       /\ sent' = restart.sent \o requests
  /\ restarts' = restarts + 1

refHistLoop ==
  /\ pc = "loop"
  /\ op = "ref_hist"
  /\ \E ev \in Incoming :
       /\ NextEvent(ev)
       /\ lastEv' = ev
       /\ LET got == refHistMsgs(data, ev.msgs, flds, 1) IN
            /\ data' = got.data
            /\ IF got.err /= "" THEN Raise(got.err)
               ELSE IF ev.type = "TIMEOUT"
               THEN IF CountMatches(Len(got.data), Len(flds), Len(tickers), Len(dates))
                    THEN Finish(refHistShape(got.data, tickers, flds))
                    ELSE Raise("RuntimeError")
               ELSE Continue
  /\ UNCHANGED <<callNo, callsLeft, op, tickers, flds, dates, sent, restarts,
                 drained, seen>>

------------------------------------------------------------------------------
(* bdib                                                                    *)

\* flds = ['open', 'high', 'low', 'close', 'volume'], each name by its rank
\* in sort order (close, high, low, open, volume)
BarFlds == <<4, 2, 3, 1, 5>>

RECURSIVE StoreBar(_, _, _)
\* for fld in flds: data[(fld)][dt] = val
StoreBar(d, tick, j) ==
  IF j > Len(BarFlds) THEN d
  ELSE StoreBar(PutItem(d, BarFlds[j], tick.time, tick.bar[BarFlds[j]]), tick, j + 1)

RECURSIVE StoreBars(_, _, _)
\* for i in range(barTick.numValues())
StoreBars(d, ticks, i) ==
  IF i > Len(ticks) THEN d
  ELSE StoreBars(StoreBar(d, ticks[i], 1), ticks, i + 1)

RECURSIVE bdibMsgs(_, _, _)
bdibMsgs(d, msgs, n) ==
  IF n > Len(msgs) THEN [data |-> d, err |-> ""]
  ELSE IF msgs[n].kind /= "bar" THEN [data |-> d, err |-> "NotFoundException"]
  ELSE bdibMsgs(StoreBars(d, msgs[n].barTickData, 1), msgs, n + 1)

\* lines 384-387: DataFrame(data), then data[flds]
bdibShape(d) ==
  IF DOMAIN d = {} THEN Failed("KeyError")
  ELSE LET idx == SortedInts(UNION {DOMAIN d[k] : k \in DOMAIN d}) IN
       Table([columns |-> BarFlds, index |-> idx,
              cell |-> [p \in Range(idx) \X Range(BarFlds) |-> d[p[2]][p[1]]]])

bdib(t) ==
  /\ Enter("bdib", <<t>>, BarFlds, <<>>)
  /\ queue' = Flushed
  /\ drained' = queue
  /\ LET request == NewRequest("bar", <<t>>, BarFlds, 0, 0, 0, <<>>) IN
       /\ inflight' = inflight \cup {request}
       /\ sent' = Append(sent, request)
  /\ UNCHANGED restarts

bdibLoop ==
  /\ pc = "loop"
  /\ op = "bdib"
  /\ \E ev \in Incoming :
       /\ NextEvent(ev)
       /\ lastEv' = ev
       /\ LET got == bdibMsgs(data, ev.msgs, 1) IN
            /\ data' = got.data
            /\ IF got.err /= "" THEN Raise(got.err)
               ELSE IF ev.type = "RESPONSE"
               THEN Finish(bdibShape(got.data))
               ELSE Continue
  /\ UNCHANGED <<callNo, callsLeft, op, tickers, flds, dates, sent, restarts,
                 drained, seen>>

------------------------------------------------------------------------------
(* custom_req                                                              *)

\* customMsgs keeping the last message of an event only
customMsgsLast(messages, msgs) ==
  IF msgs = <<>> THEN messages ELSE <<msgs[Len(msgs)]>>

\* for msg in ev: messages.append(msg)
customMsgs(messages, msgs) == messages \o msgs

\* the request handed in is a HistoricalDataRequest built by the caller
custom_req(ts, fs) ==
  /\ Enter("custom_req", ts, fs, <<>>)
  /\ queue' = Flushed
  /\ drained' = queue
  /\ LET request == NewRequest("hist", ts, fs, 0, 0, 0, <<>>) IN
       /\ inflight' = inflight \cup {request}
       /\ sent' = Append(sent, request)
  /\ UNCHANGED restarts

\* the list returned is the variable data of the state with pc = "done"
customLoop ==
  /\ pc = "loop"
  /\ op = "custom_req"
  /\ \E ev \in Incoming :
       /\ NextEvent(ev)
       /\ lastEv' = ev
       /\ data' = customMsgs(data, ev.msgs)
       /\ seen' = IF ev.type = "TIMEOUT" THEN seen ELSE Append(seen, ev)
       /\ IF ev.type = "RESPONSE" THEN Finish(Table(NoResult)) ELSE Continue
  /\ UNCHANGED <<callNo, callsLeft, op, tickers, flds, dates, sent, restarts,
                 drained>>

------------------------------------------------------------------------------
(* Specifications.                                                         *)

InitWith(n) ==
  /\ queue = <<>>
  /\ inflight = {}
  /\ callNo = 0
  /\ callsLeft = n
  /\ op = "none"
  /\ pc = "idle"
  /\ tickers = <<>>
  /\ flds = <<>>
  /\ dates = <<>>
  /\ data = <<>>
  /\ result = NoResult
  /\ err = ""
  /\ sent = <<>>
  /\ restarts = 0
  /\ drained = <<>>
  /\ seen = <<>>
  /\ lastEv = NoEvent

\* one call on a fresh session
Init == InitWith(1)

\* the array-valued field of a reference request (0: none) and its value
Bulk(fs) == {<<0, <<>> >>} \cup (Range(fs) \X Shapes)

\* one call of any kind on a fresh session
Next ==
  \/ \E ts \in Lists(Tickers), fs \in Lists(Fields) : bdh(ts, fs)
  \/ bdhLoop
  \/ \E ts \in Lists(Tickers), fs \in Lists(Fields) :
       \E b \in Bulk(fs) : ref(ts, fs, b[1], b[2])
  \/ refLoop
  \/ \E ts \in Lists(Tickers), fs \in Lists(Fields), start \in Dates, end \in Dates :
       ref_hist(ts, fs, start, end)
  \/ refHistLoop
  \/ \E t \in Tickers : bdib(t)
  \/ bdibLoop
  \/ \E ts \in Lists(Tickers), fs \in Lists(Fields) : custom_req(ts, fs)
  \/ customLoop
  \/ VendorDeliver

Spec == Init /\ [][Next]_vars

\* the lists of one element of S
Single(S) == {<<x>> : x \in S}

\* MaxCalls calls one after the other on the same BCon, each for one
\* instrument and one field
InitSeq == InitWith(MaxCalls)

NextSeq ==
  \/ \E ts \in Single(Tickers), fs \in Single(Fields) : bdh(ts, fs)
  \/ bdhLoop
  \/ \E ts \in Single(Tickers), fs \in Single(Fields) : ref(ts, fs, 0, <<>>)
  \/ refLoop
  \/ \E t \in Tickers : bdib(t)
  \/ bdibLoop
  \/ \E ts \in Single(Tickers), fs \in Single(Fields) : custom_req(ts, fs)
  \/ customLoop
  \/ VendorDeliver

\* the same, the calls being bdh and ref_hist
NextSeqH ==
  \/ \E ts \in Single(Tickers), fs \in Single(Fields) : bdh(ts, fs)
  \/ bdhLoop
  \/ \E ts \in Single(Tickers), fs \in Single(Fields), start \in Dates, end \in Dates :
       ref_hist(ts, fs, start, end)
  \/ refHistLoop
  \/ VendorDeliver

SpecSeqH == InitSeq /\ [][NextSeqH]_vars

SpecSeq == InitSeq /\ [][NextSeq]_vars

------------------------------------------------------------------------------
(* The claims.                                                             *)

\* a HistoricalDataResponse message of event ev reports a securityError
HasSecurityError(ev) ==
  \E n \in DOMAIN ev.msgs : ev.msgs[n].kind = "hist" /\ ev.msgs[n].securityError

\* the number of records a call has accumulated
RecordCount ==
  IF op \in {"bdh", "bdib"}
  THEN Cardinality({<<k, d>> \in (DOMAIN data) \X (Dates \cup {0}) : d \in DOMAIN data[k]})
  ELSE Len(data)

\* instruments x fields x business days of the ref_hist call
Product == Len(tickers) * Len(flds) * Len(dates)

\* C1: in bdh, once a message read after the request was sent reports a
\* securityError, the call has raised LookupError and returned no table,
\* whatever was accumulated before.
C1_SecurityErrorRaises ==
  (op = "bdh" /\ HasSecurityError(lastEv)) =>
    (pc = "raised" /\ err = "LookupError" /\ result = NoResult)

\* C1 witness: a LookupError raised after records of another instrument
\* had been accumulated.
C1_Witness ==
  /\ op = "bdh" /\ err = "LookupError" /\ HasSecurityError(lastEv)
  /\ \E k \in DOMAIN data : k[1] /= lastEv.msgs[1].security

\* C2: in ref_hist, a TIMEOUT event ends the loop normally only when exactly
\* N*M*K records are accumulated; with any other count the call raises the
\* timeout RuntimeError and returns no table.
C2_TimeoutNeedsExactCount ==
  (op = "ref_hist" /\ lastEv.type = "TIMEOUT") =>
    IF RecordCount = Product
    THEN pc /= "loop" /\ err /= "RuntimeError"
    ELSE pc = "raised" /\ err = "RuntimeError" /\ result = NoResult

\* C2 witness: the TIMEOUT event arrives one record short of N*M*K.
C2_Witness ==
  /\ op = "ref_hist" /\ lastEv.type = "TIMEOUT" /\ err = "RuntimeError"
  /\ RecordCount = Product - 1 /\ RecordCount > 0

\* the cardinality instruments x fields x expected-dates of a call (the
\* dates of the range for bdh and bdib, none for ref)
Expected ==
  CASE op = "ref_hist" -> Product
    [] op = "ref" -> Len(tickers) * Len(flds)
    [] OTHER -> Len(tickers) * Len(flds) * MaxDates

\* C3 as claimed: whichever fetch returns a table has accumulated the
\* expected cardinality.
C3_Original ==
  (pc = "done" /\ op \in {"bdh", "ref", "ref_hist", "bdib"}) => RecordCount = Expected

\* C3 amended: ref_hist returns a table only with exactly N*M*K records, and
\* raises when the TIMEOUT event finds fewer; bdh, ref and bdib make no
\* cardinality check: they leave the loop on the RESPONSE event and never
\* raise the cardinality error, and bdh and bdib return a table as soon as
\* one record was accumulated.
C3_OnlyRefHistReconciles ==
  /\ (op = "ref_hist" /\ pc = "done") => RecordCount = Product
  /\ (op = "ref_hist" /\ lastEv.type = "TIMEOUT" /\ RecordCount < Product) =>
       (pc = "raised" /\ err = "RuntimeError")
  /\ (op \in {"bdh", "ref", "bdib"} /\ lastEv.type = "RESPONSE") =>
       (pc /= "loop" /\ err /= "RuntimeError")
  /\ (op \in {"bdh", "bdib"} /\ lastEv.type = "RESPONSE" /\ RecordCount > 0
        /\ ~HasSecurityError(lastEv)) => pc = "done"

\* C3 witness: ref_hist returned a table for two days, and so with Product
\* records.
C3_Witness ==
  op = "ref_hist" /\ pc = "done" /\ Len(dates) = 2 /\ Len(tickers) = 2

\* the (instrument, field) pairs of the request in input order
InputPairs ==
  [n \in 1..(Len(tickers) * Len(flds)) |->
     <<tickers[((n - 1) \div Len(flds)) + 1], flds[((n - 1) % Len(flds)) + 1]>>]

\* columns is strictly increasing in the order of pairs
SortedColumns(columns) ==
  \A i, j \in DOMAIN columns : i < j => PairLess(columns[i], columns[j])

\* the list d in the order p
Reordered(d, p) == [i \in DOMAIN d |-> d[p[i]]]

\* the orders in which the records of the list d can be delivered
Orders(d) ==
  {p \in [DOMAIN d -> DOMAIN d] : \A i, j \in DOMAIN d : i /= j => p[i] /= p[j]}

\* the place of the pair c in the input order
InputPlace(c) == CHOOSE n \in DOMAIN InputPairs : InputPairs[n] = c

\* columns follows the input order of the (instrument, field) pairs
InInputOrder(columns) ==
  \A i, j \in DOMAIN columns : i < j => InputPlace(columns[i]) < InputPlace(columns[j])

C5_Original ==
  (pc = "done" /\ op = "bdh") =>
    IF Len(flds) = 1 THEN result.columns = tickers
    ELSE /\ SortedColumns(result.columns)
         /\ Range(result.columns) = Range(tickers) \X Range(flds)

\* C5 amended: one field, columns are the instruments in input order;
\* several fields, exactly one column per (instrument, field) key under
\* which a value was stored, sorted, each a pair of the request: a pair
\* under which nothing was stored has no column.
C5_ColumnsOfStoredKeys ==
  (pc = "done" /\ op = "bdh") =>
    IF Len(flds) = 1 THEN result.columns = tickers
    ELSE /\ SortedColumns(result.columns)
         /\ Range(result.columns) = DOMAIN data
         /\ Range(result.columns) \subseteq Range(tickers) \X Range(flds)

\* C5 witness: bdh returned for two instruments given in descending order
\* and two fields, with all four columns.
C5_Witness ==
  /\ pc = "done" /\ op = "bdh" /\ tickers = <<2, 1>> /\ Len(flds) = 2
  /\ Len(result.columns) = 4

RECURSIVE SumSeq(_)
SumSeq(q) == IF q = <<>> THEN 0 ELSE Head(q) + SumSeq(Tail(q))

\* items holds every sub-element of the array of shape sh of field f, entry by
\* entry and sub-element by sub-element, once each
FlattenedInOrder(items, sh, f) ==
  /\ Len(items) = SumSeq(sh)
  /\ \A n \in DOMAIN items :
       /\ items[n].fld = f
       /\ items[n].k \in DOMAIN sh
       /\ items[n].e \in 1..sh[items[n].k]
  /\ \A n, m \in DOMAIN items :
       n < m => PairLess(<<items[n].k, items[n].e>>, <<items[m].k, items[m].e>>)

\* C6: in ref, the value recorded for an array-valued field is one list of
\* every sub-element of every entry in encounter order, none dropped or
\* repeated; the value of another field is recorded unchanged.
C6_ArrayFlattened ==
  op = "ref" =>
    \A i \in DOMAIN data :
      LET request == sent[Len(sent)] IN
      IF data[i][1] = request.bulk
      THEN data[i][3].list /\ FlattenedInOrder(data[i][3].items, request.shape, data[i][1])
      ELSE data[i][3] = Scalar(Atom(request.id, 0, data[i][1], 0, 0))

\* C6 witness: an array of two entries, one of them with two sub-elements,
\* was recorded.
C6_Witness ==
  /\ op = "ref"
  /\ \E i \in DOMAIN data :
       /\ data[i][3].list
       /\ Len(data[i][3].items) = 3
       /\ Len(sent[Len(sent)].shape) = 2

\* C10 as claimed: in bdh and ref every value is stored under the field the
\* vendor reported it for.
C10_Original ==
  /\ op = "bdh" =>
       \A k \in DOMAIN data : \A d \in DOMAIN data[k] : data[k][d].items[1].fld = k[2]
  /\ op = "ref" =>
       \A i \in DOMAIN data : \A n \in DOMAIN data[i][3].items :
         data[i][3].items[n].fld = data[i][1]

RECURSIVE Messages(_)
\* the messages of the events evs in delivery order
Messages(evs) == IF evs = <<>> THEN <<>> ELSE Head(evs).msgs \o Messages(Tail(evs))

\* C7: custom_req returns exactly the messages of the events read after the
\* request was sent, up to and with the first RESPONSE event, in delivery
\* order; a TIMEOUT or PARTIAL_RESPONSE event does not end the call, and
\* the messages of the events flushed before sending are not returned.
C7_MessagesUpToResponse ==
  op = "custom_req" =>
    /\ data = Messages(seen)
    /\ pc \in {"loop", "done"}
    /\ \A i \in DOMAIN seen : (seen[i].type = "RESPONSE") <=> (pc = "done" /\ i = Len(seen))
    /\ (pc = "done") <=> (lastEv.type = "RESPONSE")

\* C7 witness: custom_req returned after flushing a pending event with a
\* message, having read a PARTIAL_RESPONSE and then the RESPONSE event.
C7_Witness ==
  /\ op = "custom_req" /\ pc = "done"
  /\ drained /= <<>> /\ drained[1].msgs /= <<>>
  /\ Len(seen) = 2 /\ Len(data) = 2

\* C8: ref_hist re-creates the session before sending, then sends one
\* request per business day, each with the day as correlation key, all keys
\* of the session distinct; every record carries the key of the request it
\* answers, and the row of date d holds values of the request of date d only.
C8_OneRequestPerDay ==
  op = "ref_hist" =>
    /\ restarts >= 1
    /\ Len(sent) = Len(dates)
    /\ \A i \in DOMAIN sent :
         sent[i].id = callNo /\ sent[i].cid = dates[i] /\ sent[i].ovrd = dates[i]
    /\ \A i, j \in DOMAIN sent : i /= j => sent[i].cid /= sent[j].cid
    /\ \A r \in inflight : r.id = callNo
    /\ \A i \in DOMAIN data :
         data[i][3].items[1].req = callNo /\ data[i][3].items[1].key = data[i][4]
    /\ pc = "done" =>
         \A p \in DOMAIN result.cell : \A n \in DOMAIN result.cell[p].items :
           result.cell[p] = NaN \/ result.cell[p].items[n].key = p[1]

\* C8 witness: ref_hist, called after a bdh call that raised, returned a
\* table of two dates whose responses arrived latest date first.
C8_Witness ==
  /\ op = "ref_hist" /\ pc = "done" /\ callNo = 2
  /\ Len(dates) = 2 /\ Len(data) = 2 /\ data[1][4] = dates[2]

\* the scalars held by the records of the running call
RecordAtoms ==
  CASE op \in {"bdh", "bdib"} ->
         {data[k][d].items[1] : <<k, d>> \in
            {x \in (DOMAIN data) \X (Dates \cup {0}) : x[2] \in DOMAIN data[x[1]]}}
    [] op = "ref" -> {data[i][3].items[1] : i \in {j \in DOMAIN data : data[j][3].items /= <<>>}}
    [] op = "custom_req" -> {[req |-> data[i].req] : i \in DOMAIN data}
    [] OTHER -> {}

\* C9 as claimed: in a call of bdh, ref, bdib or custom_req made after
\* another call, no event of an earlier request contributes a record or
\* ends the read loop.
C9_Original ==
  (callNo > 1 /\ op \in {"bdh", "ref", "bdib", "custom_req"}) =>
    /\ \A a \in RecordAtoms : a.req = callNo
    /\ (pc /= "loop" /\ lastEv.type = "RESPONSE") => lastEv.req = callNo

====
